---- MODULE Spec2Model ----
(***************************************************************************)
(* Model of update_stock_data.py: the price driver (update_stock_prices),  *)
(* the volatility driver (update_stock_volatility) and the run coordinator *)
(* (main), acting on one worksheet kept in a workbook file.                *)
(*                                                                         *)
(* Header texts are written in ASCII here.  They stand for the literal     *)
(* header strings of the source (lines 102, 116, 231, 243-247):            *)
(*   "code", "cny_price", "hkd_price", "pct_change_today",                 *)
(*   "total_share_count", "update_timestamp", "previous_low",              *)
(*   "volatility_h", "volatility_l", "volatility".                         *)
(* "name" is a column the program never looks at.                          *)
(*                                                                         *)
(* Number conventions (the source works in floating point):                *)
(*   prices are integers;                                                  *)
(*   ratios (percentage change / 100, volatilities) are kept in units of   *)
(*   1e-4 and the inputs are chosen so that every division is exact;       *)
(*   total market value is kept in units of 1e8, which is the factor 1e-8  *)
(*   of line 183.                                                          *)
(***************************************************************************)
EXTENDS Integers, Sequences, FiniteSets, TLC

VARIABLES file, pc, args, price_updated, called, last, clock, budget

vars == <<file, pc, args, price_updated, called, last, clock, budget>>

(* Largest number of data rows of an initial sheet. *)
MaxRows == 4

(* Largest number of invocations of the script on one workbook. *)
MaxRuns == 3

(***************************************************************************)
(* Cell values                                                             *)
(***************************************************************************)
None == [t |-> "none", n |-> 0, s |-> ""]

NaN == [t |-> "nan", n |-> 0, s |-> ""]

Num(x) == [t |-> "num", n |-> x, s |-> ""]

Str(x) == [t |-> "str", n |-> 0, s |-> x]

(* Python truth value of a cell value. *)
Truthy(v) ==
  CASE v.t = "none" -> FALSE
    [] v.t = "num" -> v.n # 0
    [] v.t = "str" -> v.s # ""
    [] OTHER -> TRUE

(* str(stock_code) *)
PyStr(v) ==
  CASE v.t = "none" -> "None"
    [] v.t = "num" -> ToString(v.n)
    [] v.t = "nan" -> "nan"
    [] OTHER -> v.s

(* datetime.now().strftime("%Y-%m-%d %H:%M:%S"); the clock counts the      *)
(* invocations of the script.                                              *)
Now(c) == Str("2026-01-01 09:00:0" \o ToString(c))

(***************************************************************************)
(* The worksheet                                                           *)
(***************************************************************************)
SheetName == "sheet"

FullLayout ==
  <<"code", "name", "cny_price", "hkd_price", "pct_change_today",
    "total_share_count", "update_timestamp", "previous_low",
    "volatility_h", "volatility_l", "volatility">>

PriceNextToCode ==
  <<"name", "code", "cny_price", "hkd_price", "pct_change_today",
    "total_share_count", "update_timestamp", "previous_low",
    "volatility_h", "volatility_l", "volatility">>

NoHkdPrice ==
  <<"code", "name", "cny_price", "pct_change_today",
    "total_share_count", "update_timestamp", "previous_low",
    "volatility_h", "volatility_l", "volatility">>

NoVolatility ==
  <<"code", "name", "cny_price", "hkd_price", "pct_change_today",
    "total_share_count", "update_timestamp">>

VolatilityOnly ==
  <<"code", "name", "hkd_price", "cny_price", "volatility_h",
    "volatility_l", "volatility", "previous_low">>

WatermarkFirst ==
  <<"previous_low", "code", "name", "cny_price", "hkd_price", "pct_change_today",
    "total_share_count", "update_timestamp", "volatility_h", "volatility_l",
    "volatility">>

Layouts ==
  {FullLayout, PriceNextToCode, NoHkdPrice, NoVolatility, VolatilityOnly, WatermarkFirst}

NumCols == Len(FullLayout)

(* The marker of line 203 is written at row len(stock_codes)+5. *)
MaxSheetRow == MaxRows + 5

SheetRows == 1..MaxSheetRow

DataRows == 2..MaxSheetRow

CellAt(ws, r, c) == IF r \in SheetRows /\ c \in 1..NumCols THEN ws[r][c] ELSE None

(* headers = {cell.value: idx+1 ...}: a later duplicate wins; 0 stands for *)
(* an absent key (headers.get returns None).                               *)
HeaderCol(ws, name) ==
  LET S == {c \in 1..NumCols : ws[1][c] = Str(name)}
  IN IF S = {} THEN 0 ELSE CHOOSE c \in S : \A d \in S : d <= c

MissingRequired_All(ws, required) == \A name \in required : HeaderCol(ws, name) = 0

(* for col in required_columns: if col not in headers: return *)
MissingRequired(ws, required) == \E name \in required : HeaderCol(ws, name) = 0

PriceRequiredColumns ==
  {"code", "cny_price", "hkd_price", "pct_change_today", "total_share_count",
   "update_timestamp"}

VolatilityRequiredColumns == {"code", "volatility_h", "volatility_l", "volatility"}

RECURSIVE RowsFrom(_, _, _)
(* The rows r >= from, in sheet order, that pass the filter of the list    *)
(* comprehension: row[stock_code_col].value is the cell one column to the  *)
(* right of the code column.                                               *)
RowsFrom(ws, code_col, from) ==
  IF from > MaxSheetRow THEN <<>>
  ELSE IF Truthy(CellAt(ws, from, code_col + 1))
       THEN <<from>> \o RowsFrom(ws, code_col, from + 1)
       ELSE RowsFrom(ws, code_col, from + 1)

SourceRows(ws, code_col) == RowsFrom(ws, code_col, 2)

(* stock_codes: the code cells of the rows that pass the filter. *)
StockCodes(ws, code_col) ==
  LET rows == SourceRows(ws, code_col)
  IN [k \in 1..Len(rows) |-> ws[rows[k]][code_col]]

(* ws.cell(row, column, value) on the workbook in memory; W.writes records *)
(* the cells written.                                                      *)
SetCell(W, r, c, v) ==
  [cells |-> [W.cells EXCEPT ![r][c] = v], writes |-> W.writes \cup {<<r, c>>}]

(***************************************************************************)
(* The quote provider                                                      *)
(***************************************************************************)
QuoteCodes == {"00001", "600025", "600519"}

AbsentQuote == [present |-> FALSE, price |-> None, pct |-> 0, mv |-> 0]

Quote(price, pct, mv) == [present |-> TRUE, price |-> price, pct |-> pct, mv |-> mv]

(* Rows a snapshot may hold for one code: none, an unusable price, or a    *)
(* price with its percentage change and total market value.                *)
QuoteChoices ==
  {AbsentQuote,
   Quote(None, 0, 0), Quote(NaN, 0, 0), Quote(Num(0), 0, 0),
   Quote(Num(50), 2, 100), Quote(Num(45), -10, 135), Quote(Num(48), 5, 96)}

NotFetched == [fetched |-> FALSE, empty |-> TRUE, quotes |-> [c \in QuoteCodes |-> AbsentQuote]]

EmptySnapshot == [fetched |-> TRUE, empty |-> TRUE, quotes |-> [c \in QuoteCodes |-> AbsentQuote]]

(* row_data = data[data[code column] == stock_code]; row_data.iloc[0] *)
Lookup(data, code) == IF code \in DOMAIN data.quotes THEN data.quotes[code] ELSE AbsentQuote

SnapshotFailed_Never(data) == FALSE

(* data.empty *)
SnapshotFailed(data) == data.empty

(* pd.isna(latest_price) or latest_price is None or latest_price <= 0 *)
InvalidPrice(p) == p.t = "nan" \/ p.t = "none" \/ p.n <= 0

(* The watermark update: the new price if the cell is empty or NaN, else   *)
(* min(latest_price, current_previous_low), which is its first argument    *)
(* unless the second is smaller; no number is smaller than NaN.            *)
UpdatePreviousLow(current, latest) ==
  IF current.t = "none" \/ current.t = "nan" THEN latest
  ELSE IF latest.t = "num" /\ current.n < latest.n THEN current ELSE latest

(***************************************************************************)
(* update_stock_prices                                                     *)
(***************************************************************************)
(* enumerate(stock_codes, start=2): the k-th code is written at row k+1. *)
RowIndex(k) == k + 1

(* if previous_low_col: read the cell, update the watermark, write it. *)
WriteWatermark(W, i, low_col, latest) ==
  IF low_col # 0
  THEN SetCell(W, i, low_col, UpdatePreviousLow(CellAt(W.cells, i, low_col), latest))
  ELSE W

(* percentage_change = row_data.iloc[0][pct] / 100, in units of 1e-4 *)
PercentageChange(pct) == Num((pct * 10000) \div 100)

(* total_stock_issue = total_val / latest_price * 1e-8 *)
TotalStockIssue(q) == Num(q.mv \div q.price.n)

(* The branch for a 5-character code. *)
PriceTickerHK(W, i, code, cols, hk, now) ==
  LET q == Lookup(hk, code)
  IN IF ~q.present THEN W
     ELSE IF InvalidPrice(q.price) THEN W
     ELSE LET W1 == SetCell(W, i, cols.hk, q.price)
              W2 == SetCell(W1, i, cols.pct, PercentageChange(q.pct))
              W3 == SetCell(W2, i, cols.ts, now)
          IN WriteWatermark(W3, i, cols.low, q.price)

(* The branch for a 6-character code. *)
PriceTickerA(W, i, code, cols, a, now) ==
  LET q == Lookup(a, code)
  IN IF ~q.present THEN W
     ELSE IF InvalidPrice(q.price) THEN W
     ELSE LET W1 == SetCell(W, i, cols.a, q.price)
              W2 == SetCell(W1, i, cols.shares, TotalStockIssue(q))
              W3 == SetCell(W2, i, cols.pct, PercentageChange(q.pct))
              W4 == SetCell(W3, i, cols.ts, now)
          IN WriteWatermark(W4, i, cols.low, q.price)

(* One iteration of the ticker loop. *)
PriceTicker(W, i, code_cell, cols, a, hk, now) ==
  LET code == PyStr(code_cell)
  IN IF Len(code) = 5 THEN PriceTickerHK(W, i, code, cols, hk, now)
     ELSE IF Len(code) = 6 THEN PriceTickerA(W, i, code, cols, a, now)
     ELSE W

RECURSIVE PriceLoop(_, _, _, _, _, _, _)
PriceLoop(W, codes, k, cols, a, hk, now) ==
  IF k > Len(codes) THEN W
  ELSE PriceLoop(PriceTicker(W, RowIndex(k), codes[k], cols, a, hk, now),
                 codes, k + 1, cols, a, hk, now)

(* The row of the run-completion marker, written in column 1. *)
MarkerRow(codes) == Len(codes) + 5

PriceColumns(ws) ==
  [code |-> HeaderCol(ws, "code"), a |-> HeaderCol(ws, "cny_price"),
   hk |-> HeaderCol(ws, "hkd_price"), pct |-> HeaderCol(ws, "pct_change_today"),
   shares |-> HeaderCol(ws, "total_share_count"),
   ts |-> HeaderCol(ws, "update_timestamp"), low |-> HeaderCol(ws, "previous_low")]

(* The outcome of a driver that returns before it reads the ticker list. *)
Aborted(wb, ret, a, hk) ==
  [ret |-> ret, saved |-> FALSE, ws |-> wb.ws, writes |-> {}, rows |-> <<>>,
   codes |-> <<>>, a |-> a, hk |-> hk]

(* The whole of update_stock_prices on workbook wb, given what the two     *)
(* snapshot fetches would return.                                          *)
UpdateStockPrices(wb, a, hk, now) ==
  IF SheetName \notin wb.sheetnames THEN Aborted(wb, "None", NotFetched, NotFetched)
  ELSE IF MissingRequired(wb.ws, PriceRequiredColumns)
       THEN Aborted(wb, "None", NotFetched, NotFetched)
  ELSE LET cols == PriceColumns(wb.ws)
           rows == SourceRows(wb.ws, cols.code)
           codes == StockCodes(wb.ws, cols.code)
           read == [Aborted(wb, "False", a, NotFetched) EXCEPT
                      !.rows = rows, !.codes = [k \in 1..Len(codes) |-> PyStr(codes[k])]]
       IN IF SnapshotFailed(a) THEN read
          ELSE IF SnapshotFailed(hk) THEN [read EXCEPT !.hk = hk]
          ELSE LET W0 == [cells |-> wb.ws, writes |-> {}]
                   W1 == PriceLoop(W0, codes, 1, cols, a, hk, now)
                   W2 == SetCell(W1, MarkerRow(codes), 1, now)
               IN [read EXCEPT !.ret = "True", !.saved = TRUE, !.ws = W2.cells,
                                !.writes = W2.writes, !.hk = hk]

(***************************************************************************)
(* The history provider and calculate_volatility                           *)
(***************************************************************************)
(* One daily bar; the close is a number or NaN. *)
Bar(close, chg, high, low, pct) ==
  [close |-> close, chg |-> chg, high |-> high, low |-> low, pct |-> pct]

FallingHistory == <<Bar(Num(50), 0, 52, 49, 0), Bar(Num(45), -5, 51, 44, -10)>>

RisingHistory == <<Bar(Num(48), 8, 50, 38, 20)>>

(* A history whose most recent bar has no close. *)
NaNCloseHistory == <<Bar(Num(50), 0, 52, 49, 0), Bar(NaN, 0, 51, 44, 0)>>

(* What the provider may return for one code: nothing, or daily bars. *)
HistoryChoices == {<<>>, FallingHistory, RisingHistory, NaNCloseHistory}

NoHistory == [c \in QuoteCodes |-> <<>>]

(* get_stock_history: a code of 5 or 6 characters is asked of the provider, *)
(* any other code gives an empty frame.                                    *)
GetStockHistory(provider, code) ==
  IF Len(code) = 5 \/ Len(code) = 6
  THEN IF code \in DOMAIN provider THEN provider[code] ELSE <<>>
  ELSE <<>>

(* close - change_amount; NaN propagates through the arithmetic. *)
PreviousClose(b) == IF b.close.t = "num" THEN Num(b.close.n - b.chg) ELSE NaN

VolatilityH(b) ==
  IF PreviousClose(b).t = "num"
  THEN Num(((b.high - PreviousClose(b).n) * 10000) \div PreviousClose(b).n)
  ELSE NaN

VolatilityL(b) ==
  IF PreviousClose(b).t = "num"
  THEN Num(((b.low - PreviousClose(b).n) * 10000) \div PreviousClose(b).n)
  ELSE NaN

(* max(volatility_h, -volatility_l) of one bar *)
Volatility(b) ==
  IF VolatilityH(b).t = "num"
  THEN (IF VolatilityH(b).n >= -VolatilityL(b).n THEN VolatilityH(b) ELSE Num(-VolatilityL(b).n))
  ELSE NaN

RECURSIVE SumSeq(_)
SumSeq(xs) == IF xs = <<>> THEN 0 ELSE Head(xs).n + SumSeq(Tail(xs))

IsNumber(v) == v.t = "num"

(* Series.mean() leaves the NaN entries out; the mean of none is NaN. *)
Mean(xs) ==
  LET ys == SelectSeq(xs, IsNumber)
  IN IF ys = <<>> THEN NaN ELSE Num(SumSeq(ys) \div Len(ys))

CalculateVolatility(data) ==
  [h |-> Mean([k \in 1..Len(data) |-> VolatilityH(data[k])]),
   l |-> Mean([k \in 1..Len(data) |-> VolatilityL(data[k])]),
   v |-> Mean([k \in 1..Len(data) |-> Volatility(data[k])])]

(***************************************************************************)
(* update_stock_volatility                                                 *)
(***************************************************************************)
VolatilityColumns(ws) ==
  [code |-> HeaderCol(ws, "code"), vh |-> HeaderCol(ws, "volatility_h"),
   vl |-> HeaderCol(ws, "volatility_l"), v |-> HeaderCol(ws, "volatility"),
   a |-> HeaderCol(ws, "cny_price"), hk |-> HeaderCol(ws, "hkd_price"),
   pct |-> HeaderCol(ws, "pct_change_today"),
   ts |-> HeaderCol(ws, "update_timestamp"), low |-> HeaderCol(ws, "previous_low")]

(* The price, percentage and watermark writes of one market branch. *)
BackfillMarket(W, i, price_col, cols, latest, change) ==
  LET W1 == SetCell(W, i, price_col, latest)
      W2 == IF cols.pct # 0 THEN SetCell(W1, i, cols.pct, change) ELSE W1
  IN WriteWatermark(W2, i, cols.low, latest)

(* The body of "if update_prices:" for one ticker with history. *)
BackfillPrices(W, i, code, data, cols, now) ==
  LET latest == data[Len(data)].close
      change == PercentageChange(data[Len(data)].pct)
      W1 == IF Len(code) = 5 /\ cols.hk # 0
            THEN BackfillMarket(W, i, cols.hk, cols, latest, change)
            ELSE IF Len(code) = 6 /\ cols.a # 0
                 THEN BackfillMarket(W, i, cols.a, cols, latest, change)
                 ELSE W
  IN IF cols.ts # 0 THEN SetCell(W1, i, cols.ts, now) ELSE W1

BackfillEnabled_Always(update_prices) == TRUE

(* if update_prices: *)
BackfillEnabled(update_prices) == update_prices

(* One iteration of the ticker loop. *)
VolatilityTicker(W, i, code_cell, cols, provider, update_prices, now) ==
  LET code == PyStr(code_cell)
      data == GetStockHistory(provider, code)
  IN IF data = <<>> THEN W
     ELSE LET stats == CalculateVolatility(data)
              W1 == SetCell(W, i, cols.vh, stats.h)
              W2 == SetCell(W1, i, cols.vl, stats.l)
              W3 == SetCell(W2, i, cols.v, stats.v)
          IN IF BackfillEnabled(update_prices)
             THEN BackfillPrices(W3, i, code, data, cols, now)
             ELSE W3

RECURSIVE VolatilityLoop(_, _, _, _, _, _, _)
VolatilityLoop(W, codes, k, cols, provider, update_prices, now) ==
  IF k > Len(codes) THEN W
  ELSE VolatilityLoop(
         VolatilityTicker(W, RowIndex(k), codes[k], cols, provider, update_prices, now),
         codes, k + 1, cols, provider, update_prices, now)

(* The whole of update_stock_volatility on workbook wb, given what the     *)
(* history fetches would return.                                           *)
UpdateStockVolatility(wb, provider, update_prices, now) ==
  IF SheetName \notin wb.sheetnames THEN Aborted(wb, "None", NotFetched, NotFetched)
  ELSE IF MissingRequired(wb.ws, VolatilityRequiredColumns)
       THEN Aborted(wb, "None", NotFetched, NotFetched)
  ELSE LET cols == VolatilityColumns(wb.ws)
           rows == SourceRows(wb.ws, cols.code)
           codes == StockCodes(wb.ws, cols.code)
           W0 == [cells |-> wb.ws, writes |-> {}]
           W1 == VolatilityLoop(W0, codes, 1, cols, provider, update_prices, now)
       IN [Aborted(wb, "None", NotFetched, NotFetched) EXCEPT
             !.saved = TRUE, !.ws = W1.cells, !.writes = W1.writes, !.rows = rows,
             !.codes = [k \in 1..Len(codes) |-> PyStr(codes[k])]]

(***************************************************************************)
(* main                                                                    *)
(***************************************************************************)
(* The flag sets explored: no flag, -p, -v, -a, and -p together with -v. *)
ArgChoices == {{}, {"p"}, {"v"}, {"a"}, {"p", "v"}}

Dispatch_VolatilityFirst(a) ==
  IF "a" \in a THEN "all_prices"
  ELSE IF "v" \in a THEN "only_volatility"
  ELSE IF "p" \in a THEN "only_prices"
  ELSE "default_prices"

(* The if / elif chain of main. *)
Dispatch(a) ==
  IF "a" \in a THEN "all_prices"
  ELSE IF "p" \in a THEN "only_prices"
  ELSE IF "v" \in a THEN "only_volatility"
  ELSE "default_prices"

(* not price_updated, for a return value of None, False or True *)
PyNot(ret) == ret # "True"

(* wb.save(file_name) happens only on the paths that reach it. *)
Saved(wb, res) == IF res.saved THEN [wb EXCEPT !.ws = res.ws] ELSE wb

(* The codes of the sheet's code column that the provider of one market    *)
(* can be asked about; the rows of a snapshot for any other code are never *)
(* looked at.                                                              *)
SheetCodes(wb, len) ==
  LET c == HeaderCol(wb.ws, "code")
  IN {q \in QuoteCodes : Len(q) = len /\ \E r \in DataRows : PyStr(CellAt(wb.ws, r, c)) = q}

Snapshots(wb, len) ==
  {EmptySnapshot} \cup
  {[fetched |-> TRUE, empty |-> FALSE,
    quotes |-> [c \in QuoteCodes |-> IF c \in DOMAIN f THEN f[c] ELSE AbsentQuote]] :
     f \in [SheetCodes(wb, len) -> QuoteChoices]}

Histories(wb) ==
  {[c \in QuoteCodes |-> IF c \in DOMAIN f THEN f[c] ELSE <<>>] :
     f \in [SheetCodes(wb, 5) \cup SheetCodes(wb, 6) -> HistoryChoices]}

Call(fn, update_prices, wb, res, provider) ==
  [fn |-> fn, update_prices |-> update_prices, ret |-> res.ret, saved |-> res.saved,
   before |-> wb.ws, writes |-> res.writes, rows |-> res.rows, codes |-> res.codes,
   a |-> res.a, hk |-> res.hk, hist |-> provider]

NoCall(wb) ==
  Call("none", FALSE, wb, Aborted(wb, "None", NotFetched, NotFetched), NoHistory)

(* main parses the flags and enters one branch. *)
MainStart(a) ==
  /\ pc = "idle"
  /\ clock < budget
  /\ args' = a
  /\ clock' = clock + 1
  /\ pc' = Dispatch(a)
  /\ called' = <<>>
  /\ price_updated' = "unset"
  /\ last' = NoCall(file)
  /\ UNCHANGED <<file, budget>>

(* A call of update_stock_prices from main. *)
RunPrices ==
  /\ pc \in {"all_prices", "only_prices", "default_prices"}
  /\ \E a \in Snapshots(file, 6), hk \in Snapshots(file, 5) :
       LET res == UpdateStockPrices(file, a, hk, Now(clock))
       IN /\ file' = Saved(file, res)
          /\ last' = Call("prices", FALSE, file, res, NoHistory)
          /\ price_updated' = IF pc = "all_prices" THEN res.ret ELSE price_updated
  /\ called' = Append(called, [fn |-> "prices", update_prices |-> FALSE])
  /\ pc' = IF pc = "all_prices" THEN "all_volatility" ELSE "open"
  /\ UNCHANGED <<args, clock, budget>>

(* A call of update_stock_volatility from main. *)
RunVolatility ==
  /\ pc \in {"all_volatility", "only_volatility"}
  /\ LET update_prices == IF pc = "all_volatility" THEN PyNot(price_updated) ELSE TRUE
     IN /\ \E provider \in Histories(file) :
             LET res == UpdateStockVolatility(file, provider, update_prices, Now(clock))
             IN /\ file' = Saved(file, res)
                /\ last' = Call("volatility", update_prices, file, res, provider)
        /\ called' = Append(called, [fn |-> "volatility", update_prices |-> update_prices])
  /\ pc' = "open"
  /\ UNCHANGED <<args, price_updated, clock, budget>>

(* os.system("open ..."): the invocation ends. *)
OpenFile ==
  /\ pc = "open"
  /\ pc' = "idle"
  /\ UNCHANGED <<file, args, price_updated, called, last, clock, budget>>

Next ==
  \/ \E a \in ArgChoices : MainStart(a)
  \/ RunPrices
  \/ RunVolatility
  \/ OpenFile

(***************************************************************************)
(* Initial workbooks                                                       *)
(***************************************************************************)
(* The code cells used: an A-share code kept as text or as a number, an HK *)
(* code, and a code of another length.                                     *)
ACodeCells == {Str("600025"), Num(600519)}

CodeCycle(acell) == <<acell, Str("00001"), Str("1234")>>

Position(layout, name) ==
  IF \E c \in 1..Len(layout) : layout[c] = name
  THEN CHOOSE c \in 1..Len(layout) : layout[c] = name
  ELSE 0

(* The watermark an earlier run left in a row. *)
EarlierLow == Num(47)

(* A sheet with n data rows under the header: the k-th data row holds the  *)
(* code CodeCycle[k + o]; in the first d data rows the cell right of the   *)
(* code is empty and the previous-low cell holds the watermark of an       *)
(* earlier run; in the other rows the cell right of the code is filled and *)
(* the previous-low cell is empty.                                         *)
InitialSheet(layout, n, d, o, acell) ==
  LET cc == Position(layout, "code")
      filled == IF cc + 1 <= Len(layout) /\ layout[cc + 1] = "name"
                THEN Str("n") ELSE Num(48)
  IN [r \in SheetRows |-> [c \in 1..NumCols |->
        IF r = 1 THEN (IF c <= Len(layout) THEN Str(layout[c]) ELSE None)
        ELSE IF r - 1 > n THEN None
        ELSE IF c = cc THEN CodeCycle(acell)[((r - 2 + o) % 3) + 1]
        ELSE IF c = cc + 1 /\ r - 1 > d THEN filled
        ELSE IF c = Position(layout, "previous_low") /\ r - 1 <= d THEN EarlierLow
        ELSE None]]

InitialSheets(rowCounts, acells) ==
  {InitialSheet(layout, n, d, o, acell) :
     layout \in Layouts, n \in rowCounts, d \in 0..MaxRows, o \in 0..2,
     acell \in acells}

InitWith(sheets, b) ==
  /\ file \in [sheetnames : {{SheetName}, {"Sheet1"}}, ws : sheets]
  /\ pc = "idle"
  /\ args = {}
  /\ price_updated = "unset"
  /\ called = <<>>
  /\ last = NoCall(file)
  /\ clock = 0
  /\ budget = b

(* Repeated invocations on a sheet with one data row. *)
Init == InitWith(InitialSheets({1}, ACodeCells), MaxRuns)

Spec == Init /\ [][Next]_vars

(* One invocation on a sheet with up to MaxRows data rows; the A-share     *)
(* code of these sheets is kept as a number, the one-row sheets above      *)
(* carry it in both forms.                                                 *)
InitSheets == InitWith(InitialSheets(1..MaxRows, {Num(600519)}), 1)

SpecSheets == InitSheets /\ [][Next]_vars

(***************************************************************************)
(* Properties                                                              *)
(***************************************************************************)
(* The column of a header text, read off the sheet; 0 if there is none. *)
ColumnOf(ws, name) ==
  IF \E c \in 1..NumCols : ws[1][c] = Str(name)
  THEN CHOOSE c \in 1..NumCols : ws[1][c] = Str(name)
  ELSE 0

Lacks(ws, names) == \E name \in names : ColumnOf(ws, name) = 0

PriceRan == last.fn = "prices" /\ last.ret = "True"

(* The quote the last price run held for a code of the ticker list. *)
QuoteOf(code) ==
  IF Len(code) = 5 THEN last.hk.quotes[code] ELSE last.a.quotes[code]

Quoted(code) ==
  /\ code \in QuoteCodes
  /\ QuoteOf(code).present
  /\ QuoteOf(code).price.t = "num"
  /\ QuoteOf(code).price.n > 0

(* C1: once the previous-low cell of a row holds a number, every later     *)
(* value of that cell is a number that is less than or equal to it,        *)
(* whichever driver runs and whatever prices the provider returns: no run  *)
(* of a driver takes a numeric previous-low cell to anything else than a   *)
(* number that is not larger.                                              *)
C1_WatermarkNeverIncreases ==
  last.fn \in {"prices", "volatility"} =>
    \A r \in DataRows :
      LET c == ColumnOf(last.before, "previous_low")
      IN (c # 0 /\ last.before[r][c].t = "num")
           => /\ file.ws[r][c].t = "num"
              /\ file.ws[r][c].n <= last.before[r][c].n

(* C2: a price run that finds the A-share or the HK snapshot empty returns *)
(* False, writes no cell and does not save; a price run that fetched two   *)
(* non-empty snapshots returns True.                                       *)
C2_EmptySnapshotAborts ==
  /\ (last.fn = "prices" /\ ((last.a.fetched /\ last.a.empty) \/ (last.hk.fetched /\ last.hk.empty)))
       => (last.ret = "False" /\ last.writes = {} /\ ~last.saved /\ file.ws = last.before)
  /\ (last.fn = "prices" /\ last.a.fetched /\ ~last.a.empty /\ last.hk.fetched /\ ~last.hk.empty)
       => last.ret = "True"

(* A price run on a sheet with tickers that got the A-share snapshot and   *)
(* then an empty HK snapshot.                                              *)
C2_Witness ==
  /\ last.fn = "prices"
  /\ last.hk.fetched /\ last.hk.empty
  /\ ~last.a.empty
  /\ last.codes # <<>>
  /\ last.ret = "False"

(* C3: with -a the price driver runs to completion first and the           *)
(* volatility driver then runs with update_prices = not (the price driver  *)
(* returned True); with -p or no flag only the price driver runs; with -v  *)
(* alone only the volatility driver runs, with update_prices = true.       *)
C3_DecisionTable ==
  /\ pc = "all_volatility"
       => /\ called = <<[fn |-> "prices", update_prices |-> FALSE]>>
          /\ last.fn = "prices"
          /\ price_updated = last.ret
  /\ pc = "open"
       => called =
            IF "a" \in args
            THEN <<[fn |-> "prices", update_prices |-> FALSE],
                   [fn |-> "volatility", update_prices |-> (price_updated # "True")]>>
            ELSE IF "p" \in args \/ "v" \notin args
                 THEN <<[fn |-> "prices", update_prices |-> FALSE]>>
                 ELSE <<[fn |-> "volatility", update_prices |-> TRUE]>>

(* An -a invocation whose price driver returned False and whose volatility *)
(* driver then ran with price backfill.                                    *)
C3_Witness ==
  /\ pc = "open"
  /\ args = {"a"}
  /\ price_updated = "False"
  /\ last.fn = "volatility" /\ last.update_prices /\ last.saved

(* C6: a driver that finds a required column missing returns without       *)
(* writing a cell and without saving; under -a the other driver still runs *)
(* (the volatility driver after a price-driver schema error, and with      *)
(* price backfill).                                                        *)
C6_SchemaErrorAborts ==
  /\ (last.fn = "prices" /\ Lacks(last.before, PriceRequiredColumns))
       => /\ last.ret = "None" /\ last.writes = {} /\ ~last.saved
          /\ file.ws = last.before
          /\ "a" \in args => pc = "all_volatility"
  /\ (last.fn = "volatility" /\ Lacks(last.before, VolatilityRequiredColumns))
       => /\ last.ret = "None" /\ last.writes = {} /\ ~last.saved
          /\ file.ws = last.before
          /\ "a" \in args => called[1].fn = "prices"
  /\ (last.fn = "volatility" /\ "a" \in args /\ Lacks(last.before, PriceRequiredColumns))
       => last.update_prices

(* An -a invocation on a sheet without the HKD price column: the price     *)
(* driver aborted and the volatility driver ran with backfill and saved.   *)
C6_Witness ==
  /\ args = {"a"}
  /\ last.fn = "volatility"
  /\ Lacks(last.before, PriceRequiredColumns)
  /\ price_updated = "None"
  /\ last.update_prices /\ last.saved /\ last.writes # {}

VolatilityHeaders == {"volatility_h", "volatility_l", "volatility"}

(* C10: a volatility run with update_prices = false changes no cell        *)
(* outside the three volatility columns, and under -a a price driver that  *)
(* returned True is followed by such a run.                                *)
C10_VolatilityOnlyFrame ==
  /\ (last.fn = "volatility" /\ ~last.update_prices)
       => \A r \in SheetRows, c \in 1..NumCols :
            (\A h \in VolatilityHeaders : c # ColumnOf(last.before, h))
              => (file.ws[r][c] = last.before[r][c] /\ <<r, c>> \notin last.writes)
  /\ (last.fn = "volatility" /\ "a" \in args /\ price_updated = "True")
       => ~last.update_prices

(* A volatility run without backfill that wrote volatilities for a ticker  *)
(* whose live price differs from the last close of its history.            *)
C10_Witness ==
  /\ last.fn = "volatility" /\ ~last.update_prices
  /\ last.rows = <<2>>
  /\ last.codes[1] \in QuoteCodes
  /\ last.hist[last.codes[1]] = FallingHistory
  /\ <<2, ColumnOf(file.ws, "volatility")>> \in last.writes
  /\ LET c == ColumnOf(file.ws, IF Len(last.codes[1]) = 5 THEN "hkd_price" ELSE "cny_price")
     IN file.ws[2][c] = Num(50)

(* The ticker list of the last driver run, as positions 1..Len. *)
Tickers == 1..Len(last.codes)

(* C4: in a price run that returned True, a quoted 6-character code other  *)
(* than "600025" gets total_market_value / last_price (scaled) as its      *)
(* share count; "600025" gets a share count that does not depend on the    *)
(* quote, so a count written by an earlier run is written again; a quoted  *)
(* 5-character code gets no share count.                                   *)
C4_ShareCountOverride ==
  PriceRan =>
    \A k \in Tickers :
      LET code == last.codes[k]
          i == k + 1
          c == ColumnOf(last.before, "total_share_count")
      IN Quoted(code) =>
           /\ (Len(code) = 6 /\ code # "600025")
                => file.ws[i][c] = Num(QuoteOf(code).mv \div QuoteOf(code).price.n)
           /\ (code = "600025" /\ last.before[i][c].t = "num")
                => file.ws[i][c] = last.before[i][c]
           /\ Len(code) = 5 => <<i, c>> \notin last.writes

(* A ticker of the last price run that the loop skips. *)
SkippedTicker(code) == ~(Len(code) = 5 \/ Len(code) = 6) \/ ~Quoted(code)

(* C5: in a price run with both snapshots non-empty, the sheet row that    *)
(* holds a skipped ticker (absent from its snapshot, unusable price, code  *)
(* length neither 5 nor 6) keeps every cell, and the quoted tickers are    *)
(* still written.                                                          *)
C5_SkippedRowUntouched ==
  PriceRan =>
    \A k \in Tickers :
      IF SkippedTicker(last.codes[k])
      THEN \A c \in 1..NumCols : file.ws[last.rows[k]][c] = last.before[last.rows[k]][c]
      ELSE <<k + 1, ColumnOf(last.before, "update_timestamp")>> \in last.writes

(* The watermark a cell should hold after the price p was observed. *)
Watermark(current, p) == IF current.t = "num" /\ current.n < p.n THEN current ELSE p

(* C7: in a volatility run with update_prices = true, for a ticker with    *)
(* history that is written at its own row, each optional write happens     *)
(* when its own column exists: the last close in the price column of the   *)
(* market, the change ratio in the percentage column, the watermark in the *)
(* previous-low column, the timestamp in the timestamp column.             *)
C7_OptionalWritesIndependent ==
  (last.fn = "volatility" /\ last.update_prices /\ last.saved) =>
    \A k \in Tickers :
      LET code == last.codes[k]
          i == k + 1
          data == IF code \in QuoteCodes THEN last.hist[code] ELSE <<>>
          price == ColumnOf(last.before, IF Len(code) = 5 THEN "hkd_price" ELSE "cny_price")
          pct == ColumnOf(last.before, "pct_change_today")
          low == ColumnOf(last.before, "previous_low")
          ts == ColumnOf(last.before, "update_timestamp")
      IN (data # <<>> /\ last.rows[k] = i) =>
           /\ price # 0 => file.ws[i][price] = data[Len(data)].close
           /\ pct # 0 => <<i, pct>> \in last.writes
           /\ low # 0 => /\ <<i, low>> \in last.writes
                         /\ data[Len(data)].close.t = "num"
                              => file.ws[i][low] =
                                   Watermark(last.before[i][low], data[Len(data)].close)
           /\ ts # 0 => <<i, ts>> \in last.writes

(* The codes a driver would read from a sheet. *)
CodesRead(ws) ==
  LET codes == StockCodes(ws, ColumnOf(ws, "code"))
  IN {PyStr(codes[k]) : k \in 1..Len(codes)}

(* C8: a price run that returned True leaves every code cell as it was,    *)
(* writes its marker strictly below the last row that holds a code, and    *)
(* leaves the set of codes read from the sheet unchanged.                  *)
C8_MarkerBelowTickerRows ==
  PriceRan =>
    LET cc == ColumnOf(last.before, "code")
    IN /\ \A r \in DataRows :
            last.before[r][cc] # None
              => (Len(last.codes) + 5 > r /\ file.ws[r][cc] = last.before[r][cc])
       /\ CodesRead(file.ws) = CodesRead(last.before)

(* C9: in both drivers the row written for the k-th ticker of the list is  *)
(* the sheet row the k-th code was read from.                              *)
C9_RowOfTicker ==
  last.fn \in {"prices", "volatility"} =>
    \A k \in Tickers : k + 1 = last.rows[k]

(* The model stays inside the sheet it keeps, and a previous-low cell that *)
(* holds text (the marker, when that column is column 1) lies below the    *)
(* rows the ticker loop reads.                                             *)
WithinSheet ==
  /\ \A w \in last.writes : w[1] \in SheetRows
  /\ \A r \in DataRows :
       LET c == ColumnOf(file.ws, "previous_low")
           cc == ColumnOf(file.ws, "code")
       IN (c # 0 /\ cc # 0 /\ file.ws[r][c].t = "str")
            => r > Len(StockCodes(file.ws, cc)) + 1

====
